---- MODULE Spec2Model ----
(***************************************************************************)
(* Model of 11_Renegociaciones.py: one Streamlit script run after another  *)
(* over the session state.  A run reads the widgets, filters the invoices  *)
(* of the requested RUT, accrues the overdue interest of each invoice      *)
(* (Parte 1) and builds the instalment plan (Parte 2).                     *)
(*                                                                         *)
(* Amounts are whole pesos.  The monthly rate is kept in hundredths of a   *)
(* percent (33 is 0.33 %), so every product the script rounds is an exact  *)
(* rational num/den; round() and Series.round(0) are round-half-to-even.   *)
(* Dates are <<year, month, day>>.  Text (a RUT) is a sequence of          *)
(* one-character strings.                                                  *)
(***************************************************************************)
EXTENDS Integers, Sequences, FiniteSets, TLC

(* ------------------------------ bounds -------------------------------- *)

\* largest value offered for the "N° Cuotas" widget
MaxCuotas == 3

(* ------------------------- program constants -------------------------- *)

\* iva_pct = 0.19, in percent
IvaPct == 19
\* the 30-day month of factor_diario and of tasa_m / 30.0
DiasMes == 30
\* pd.Timedelta(days=15)
DiasQuincena == 15
\* min_value and value of the "N° Cuotas" widget
MinCuotas == 1
\* value of the "Tasa Mensual (%)" widget, in hundredths of a percent
TasaDefecto == 33
\* tasa_mensual / 100 and tasa_m / 30.0 over a rate held in hundredths of a
\* percent: the daily factor is tasa / FactorDen
FactorDen == 100 * 100 * DiasMes

(* ----------------------------- arithmetic ----------------------------- *)

\* round(num / den) for den > 0, ties to the even integer (Python 3 round,
\* numpy rint).  \div is the floor division, % the matching remainder.
RoundHalfEven(num, den) ==
    LET q == num \div den
        r == num % den
    IN  IF 2 * r < den THEN q
        ELSE IF 2 * r > den THEN q + 1
        ELSE IF q % 2 = 0 THEN q ELSE q + 1

RECURSIVE SumSeq(_)
\* sum(partes), Series.sum()
SumSeq(s) == IF s = <<>> THEN 0 ELSE Head(s) + SumSeq(Tail(s))

Max2(a, b) == IF a >= b THEN a ELSE b
Min2(a, b) == IF a <= b THEN a ELSE b

(* ------------------------------- dates -------------------------------- *)

\* NaT: a due date that is missing or did not parse
NaT == <<>>

IsLeap(y) == (y % 4 = 0 /\ y % 100 # 0) \/ y % 400 = 0

DaysInMonth(y, m) ==
    IF m = 2 THEN (IF IsLeap(y) THEN 29 ELSE 28)
    ELSE IF m \in {4, 6, 9, 11} THEN 30 ELSE 31

RECURSIVE DaysBeforeYear(_)
\* days from 1 January 2000 to 1 January of year y
DaysBeforeYear(y) ==
    IF y <= 2000 THEN 0
    ELSE DaysBeforeYear(y - 1) + (IF IsLeap(y - 1) THEN 366 ELSE 365)

RECURSIVE DaysBeforeMonth(_, _)
DaysBeforeMonth(y, m) ==
    IF m <= 1 THEN 0 ELSE DaysBeforeMonth(y, m - 1) + DaysInMonth(y, m - 1)

\* the day number of a date: what a difference of Timestamps counts in .days
Ordinal(f) == DaysBeforeYear(f[1]) + DaysBeforeMonth(f[1], f[2]) + f[3]

\* (a - b).days
DiasEntre(a, b) == Ordinal(a) - Ordinal(b)

\* the calendar day after f
DiaSiguiente(f) ==
    IF f[3] < DaysInMonth(f[1], f[2]) THEN <<f[1], f[2], f[3] + 1>>
    ELSE IF f[2] < 12 THEN <<f[1], f[2] + 1, 1>>
    ELSE <<f[1] + 1, 1, 1>>

RECURSIVE MasDias(_, _)
\* cur + pd.Timedelta(days=k)
MasDias(f, k) == IF k = 0 THEN f ELSE MasDias(DiaSiguiente(f), k - 1)

\* a month step that keeps the day of the month even where it does not exist
MasUnMesSinAjuste(f) ==
    IF f[2] = 12 THEN <<f[1] + 1, 1, f[3]>> ELSE <<f[1], f[2] + 1, f[3]>>

\* cur + relativedelta(months=1): the next month, the day cut to its length
MasUnMes(f) ==
    LET y == IF f[2] = 12 THEN f[1] + 1 ELSE f[1]
        m == IF f[2] = 12 THEN 1 ELSE f[2] + 1
    IN  <<y, m, Min2(f[3], DaysInMonth(y, m))>>

\* one step of the payment calendar (lines 81-84, 293-296)
Avanzar(f, periodicidad) ==
    IF periodicidad = "Quincenal" THEN MasDias(f, DiasQuincena) ELSE MasUnMes(f)

(* -------------------------------- text -------------------------------- *)

Digitos == {"0", "1", "2", "3", "4", "5", "6", "7", "8", "9"}

\* str.upper() on one character of a RUT
Upper(c) == IF c = "k" THEN "K" ELSE c

RECURSIVE SoloRut(_)
\* re.sub(r"[^0-9kK]", "", str(x)).upper()
SoloRut(x) ==
    IF x = <<>> THEN <<>>
    ELSE IF Head(x) \in Digitos \cup {"k", "K"}
         THEN <<Upper(Head(x))>> \o SoloRut(Tail(x))
         ELSE SoloRut(Tail(x))

RECURSIVE SinCeros(_)
\* str(int(cuerpo)) for a body of digits: the leading zeros go, "0" stays
SinCeros(t) ==
    IF Len(t) > 1 /\ Head(t) = "0" THEN SinCeros(Tail(t)) ELSE t

\* _normalize_rut (lines 53-58).  NaN and the empty text both give "".  The
\* RUTs of the model have a body of digits, on which int() does not raise.
_normalize_rut(x) ==
    LET t == SoloRut(x)
    IN  IF t = <<>> THEN <<>>
        ELSE IF Len(t) > 1
             THEN SinCeros(SubSeq(t, 1, Len(t) - 1)) \o <<"-", t[Len(t)]>>
             ELSE t

(* --------------------------- rounding split --------------------------- *)

\* [base] * n
Repetir(v, n) == [k \in 1..n |-> v]

\* _distribuir_redondeo with the difference left out
DistribuirSinDiff(val_total, n) ==
    IF n <= 0 THEN <<0>> ELSE Repetir(RoundHalfEven(val_total, n), n)

\* _distribuir_redondeo with the difference put on the first part
DistribuirEnPrimera(val_total, n) ==
    IF n <= 0 THEN <<0>>
    ELSE LET base   == RoundHalfEven(val_total, n)
             partes == Repetir(base, n)
             diff   == val_total - SumSeq(partes)
         IN  [partes EXCEPT ![1] = @ + diff]

\* _distribuir_redondeo (lines 68-74) on a whole-peso total
_distribuir_redondeo(val_total, n) ==
    IF n <= 0 THEN <<0>>
    ELSE LET base   == RoundHalfEven(val_total, n)
             partes == Repetir(base, n)
             diff   == val_total - SumSeq(partes)
         IN  [partes EXCEPT ![n] = @ + diff]

(* --------------------------- payment dates ---------------------------- *)

RECURSIVE GenerarDesde(_, _, _)
\* the loop of _generar_fechas: append cur, then step it
GenerarDesde(cur, n, periodicidad) ==
    IF n <= 0 THEN <<>>
    ELSE <<cur>> \o GenerarDesde(Avanzar(cur, periodicidad), n - 1, periodicidad)

\* _generar_fechas (lines 76-85)
_generar_fechas(primer_pago, n, periodicidad) ==
    GenerarDesde(primer_pago, n, periodicidad)

(* ------------------------------- inputs ------------------------------- *)

\* An uploaded file as load_data_simple reads it: whether it has a due-date
\* column (col_vcto) and its rows.  monto is the amount column after
\* pd.to_numeric(...).fillna(0); vcto is the due date after pd.to_datetime
\* (NaT when it is missing or does not parse).
Fila(rut, monto, vcto) == [rut |-> rut, monto |-> monto, vcto |-> vcto]

CarteraA ==
    [col_vcto |-> TRUE,
     filas |-> << Fila(<<"1", "2", ".", "3", "4", "5", "-", "6">>, 1000000, NaT),
                  Fila(<<"7", ".", "6", "5", "4", "-", "K">>, 150000, <<2023, 11, 15>>),
                  Fila(<<"0", "7", "6", "5", "4", "-", "k">>, 80000, <<2024, 3, 1>>),
                  Fila(<<"7", "6", "5", "4", "k">>, 90000, <<2023, 12, 31>>),
                  Fila(<<"5", "5", "-", "5">>, 150000, <<2023, 11, 15>>),
                  Fila(<<"5", "5", "-", "5">>, -597000, NaT) >>]

CarteraB ==
    [col_vcto |-> FALSE,
     filas |-> << Fila(<<"1", "2", "3", "4", "5", "-", "6">>, 50000, NaT),
                  Fila(<<"7", "6", "5", "4", "-", "K">>, 40000, NaT),
                  Fila(<<"7", "6", "5", "4", "-", "K">>, -120000, NaT) >>]

\* the values of the file uploader: nothing, or one file
Subidas == {<<>>, <<CarteraA>>, <<CarteraB>>}

\* st.date_input "Fecha Cálculo / 1er Pago"
FechasCalculo == {<<2023, 12, 31>>, <<2024, 1, 3>>, <<2024, 1, 31>>}

\* st.number_input "Tasa Mensual (%)", in hundredths of a percent; the widget
\* sets no minimum
Tasas == {0, 33, -33}

\* st.number_input "N° Cuotas", min_value=1
Cuotas == MinCuotas..MaxCuotas

Periodicidades == {"Mensual", "Quincenal"}

\* "Costas judiciales" and "Honorarios abogados"; "Gastos cobranza" and
\* "Otros gastos" stay at their default
CostasJud == {0, 100}
Honorarios == {0, 25}

\* st.text_input "Ingresa RUT del Cliente"
RutInputs ==
    { <<>>,
      <<"1", "2", "3", "4", "5", "6">>,
      <<"7", "6", "5", "4", "-", "k">>,
      <<"5", "5", "5">>,
      <<"9", "9", "-", "9">> }

(* -------------------------------- state ------------------------------- *)

VARIABLES
    pc,                 \* where the script run stands
    uploaded_files,     \* what the file uploader holds
    rut_input,          \* what the RUT text box holds
    df_cache,           \* st.session_state["df_cache"], or NoCache
    calc_done,          \* st.session_state["calc_done"]
    rut_target,         \* st.session_state["rut_target"]
    df,                 \* the data frame of this run
    fecha_calculo, tasa_mensual, n_cuotas, periodicidad,
    costo_jud, honor_abog, g_cobranza, otros_cost,
    rut_clean,
    df_cliente,         \* the rows of the customer, with the Parte 1 columns
    mensaje,            \* the st.warning / st.info the run showed
    total_capital_p1, total_interes_p1, deuda_total_p1,
    saldo_deuda_total, capital_tot_reneg,
    capital_cuotas, fechas_pago, fecha_posterior, fechas_referencia,
    lista_intereses, temp_saldo, temp_interes_previo,
    i,                  \* the index of the running loop, from 0
    cuota_fija, costos_cuota_list,
    rows, current_saldo, prev_interest,
    total_cuotas_calc, gran_total_final

sesion  == <<df_cache, calc_done, rut_target>>
widgets == <<uploaded_files, rut_input, fecha_calculo, tasa_mensual, n_cuotas,
             periodicidad, costo_jud, honor_abog, g_cobranza, otros_cost>>
parte1  == <<rut_clean, df_cliente, total_capital_p1, total_interes_p1,
             deuda_total_p1>>
plan    == <<saldo_deuda_total, capital_tot_reneg, capital_cuotas, fechas_pago,
             fecha_posterior, fechas_referencia>>
bucle1  == <<lista_intereses, temp_saldo, temp_interes_previo>>
bucle2  == <<rows, current_saldo, prev_interest>>
totales == <<total_cuotas_calc, gran_total_final>>

vars == <<pc, sesion, df, widgets, parte1, mensaje, plan, bucle1, i,
          cuota_fija, costos_cuota_list, bucle2, totales>>

\* "df_cache" not in st.session_state
NoCache == [ausente |-> TRUE]

\* pd.DataFrame()
DfVacio == [col_vcto |-> FALSE, filas |-> <<>>]

(* ------------------------------ the run ------------------------------- *)

RECURSIVE ConcatFilas(_)
ConcatFilas(archivos) ==
    IF archivos = <<>> THEN <<>>
    ELSE Head(archivos).filas \o ConcatFilas(Tail(archivos))

\* load_data_simple (lines 87-107): the files read, concatenated
load_data_simple(archivos) ==
    IF archivos = <<>> THEN DfVacio
    ELSE [col_vcto |-> \E k \in DOMAIN archivos : archivos[k].col_vcto,
          filas    |-> ConcatFilas(archivos)]

\* df["RUT_norm"] = df["RUT"].apply(_normalize_rut)  (line 136)
ConRutNorm(d) ==
    [d EXCEPT !.filas =
        [k \in DOMAIN @ |-> [rut      |-> @[k].rut,
                             monto    |-> @[k].monto,
                             vcto     |-> @[k].vcto,
                             rut_norm |-> _normalize_rut(@[k].rut)]]]

\* df[df["RUT_norm"] == rut_clean]  (line 182)
FiltrarRut(filas, rut) == SelectSeq(filas, LAMBDA f : f.rut_norm = rut)

\* costos_total_extras  (line 159)
costos_total_extras == costo_jud + honor_abog + g_cobranza + otros_cost

\* every name a run binds after the widgets, before it is bound
SinResultados ==
    /\ total_capital_p1' = 0 /\ total_interes_p1' = 0 /\ deuda_total_p1' = 0
    /\ saldo_deuda_total' = 0 /\ capital_tot_reneg' = 0
    /\ capital_cuotas' = <<>> /\ fechas_pago' = <<>>
    /\ fecha_posterior' = NaT /\ fechas_referencia' = <<>>
    /\ lista_intereses' = <<>> /\ temp_saldo' = 0 /\ temp_interes_previo' = 0
    /\ i' = 0
    /\ cuota_fija' = 0 /\ costos_cuota_list' = <<>>
    /\ rows' = <<>> /\ current_saldo' = 0 /\ prev_interest' = 0
    /\ total_cuotas_calc' = 0 /\ gran_total_final' = 0

Init ==
    /\ pc = "inicio"
    /\ uploaded_files = <<>> /\ rut_input = <<>>
    /\ df_cache = NoCache /\ calc_done = FALSE /\ rut_target = <<>>
    /\ df = DfVacio
    /\ fecha_calculo = NaT /\ tasa_mensual = 0 /\ n_cuotas = 0
    /\ periodicidad = "Mensual"
    /\ costo_jud = 0 /\ honor_abog = 0 /\ g_cobranza = 0 /\ otros_cost = 0
    /\ rut_clean = <<>>
    /\ df_cliente = <<>>
    /\ mensaje = "ninguno"
    /\ total_capital_p1 = 0 /\ total_interes_p1 = 0 /\ deuda_total_p1 = 0
    /\ saldo_deuda_total = 0 /\ capital_tot_reneg = 0
    /\ capital_cuotas = <<>> /\ fechas_pago = <<>>
    /\ fecha_posterior = NaT /\ fechas_referencia = <<>>
    /\ lista_intereses = <<>> /\ temp_saldo = 0 /\ temp_interes_previo = 0
    /\ i = 0
    /\ cuota_fija = 0 /\ costos_cuota_list = <<>>
    /\ rows = <<>> /\ current_saldo = 0 /\ prev_interest = 0
    /\ total_cuotas_calc = 0 /\ gran_total_final = 0

\* the widgets of section 2 were drawn by the last run (line 142)
Dibujados == df.filas # <<>>

\* A script run from its top to the filter of line 182, with the uploader,
\* the widgets and the button holding the given values.
Run(archivos, fc, tm, nc, per, cj, ha, rut, btn_calcular) ==
    /\ pc \in {"inicio", "fin"}
    /\ uploaded_files' = archivos
    /\ LET cargado == IF df_cache = NoCache
                      THEN load_data_simple(archivos) ELSE df_cache
           df_run  == IF archivos # <<>> THEN ConRutNorm(cargado) ELSE DfVacio
           done2   == calc_done \/ (btn_calcular /\ rut # <<>>)
           target2 == IF btn_calcular /\ rut # <<>> THEN rut ELSE rut_target
       IN  /\ df' = df_run
           \* lines 120-123 and 135-136: the cached frame is the one renamed
           \* and given RUT_norm
           /\ df_cache' = IF archivos # <<>> THEN df_run ELSE df_cache
           /\ SinResultados
           /\ IF df_run.filas # <<>>
              THEN /\ fecha_calculo' = fc /\ tasa_mensual' = tm /\ n_cuotas' = nc
                   /\ periodicidad' = per
                   /\ costo_jud' = cj /\ honor_abog' = ha
                   /\ g_cobranza' = 0 /\ otros_cost' = 0
                   /\ rut_input' = rut
                   /\ calc_done' = done2
                   /\ rut_target' = target2
                   /\ mensaje' = "ninguno"
                   /\ IF done2 /\ target2 # <<>>
                      THEN /\ rut_clean' = _normalize_rut(target2)
                           /\ df_cliente' = FiltrarRut(df_run.filas, _normalize_rut(target2))
                           /\ pc' = "parte1"
                      ELSE /\ rut_clean' = <<>>
                           /\ df_cliente' = <<>>
                           /\ pc' = "fin"
              ELSE \* no widget is drawn: the next run that draws them starts
                   \* from their defaults
                   /\ fecha_calculo' = NaT /\ tasa_mensual' = 0 /\ n_cuotas' = 0
                   /\ periodicidad' = "Mensual"
                   /\ costo_jud' = 0 /\ honor_abog' = 0
                   /\ g_cobranza' = 0 /\ otros_cost' = 0
                   /\ rut_input' = <<>>
                   /\ UNCHANGED <<calc_done, rut_target>>
                   /\ rut_clean' = <<>>
                   /\ df_cliente' = <<>>
                   \* line 467: "Carga tu archivo para comenzar"
                   /\ mensaje' = "info_carga"
                   /\ pc' = "fin"

\* The user changes the uploaded files.  Widgets the last run did not draw
\* come up with their defaults: today's date, 0.33 %, one instalment,
\* "Mensual", no costs, no RUT.
CambiarArchivos(archivos, hoy) ==
    /\ archivos # uploaded_files
    /\ IF Dibujados
       THEN Run(archivos, fecha_calculo, tasa_mensual, n_cuotas, periodicidad,
                costo_jud, honor_abog, rut_input, FALSE)
       ELSE Run(archivos, hoy, TasaDefecto, MinCuotas, "Mensual", 0, 0, <<>>, FALSE)

CambiarFecha(fc) ==
    /\ Dibujados /\ fc # fecha_calculo
    /\ Run(uploaded_files, fc, tasa_mensual, n_cuotas, periodicidad,
           costo_jud, honor_abog, rut_input, FALSE)

CambiarTasa(tm) ==
    /\ Dibujados /\ tm # tasa_mensual
    /\ Run(uploaded_files, fecha_calculo, tm, n_cuotas, periodicidad,
           costo_jud, honor_abog, rut_input, FALSE)

CambiarCuotas(nc) ==
    /\ Dibujados /\ nc # n_cuotas
    /\ Run(uploaded_files, fecha_calculo, tasa_mensual, nc, periodicidad,
           costo_jud, honor_abog, rut_input, FALSE)

CambiarPeriodicidad(per) ==
    /\ Dibujados /\ per # periodicidad
    /\ Run(uploaded_files, fecha_calculo, tasa_mensual, n_cuotas, per,
           costo_jud, honor_abog, rut_input, FALSE)

CambiarCostos(cj, ha) ==
    /\ Dibujados /\ <<cj, ha>> # <<costo_jud, honor_abog>>
    /\ Run(uploaded_files, fecha_calculo, tasa_mensual, n_cuotas, periodicidad,
           cj, ha, rut_input, FALSE)

EscribirRut(rut) ==
    /\ Dibujados /\ rut # rut_input
    /\ Run(uploaded_files, fecha_calculo, tasa_mensual, n_cuotas, periodicidad,
           costo_jud, honor_abog, rut, FALSE)

\* the button "Calcular Ficha": True in the run the click starts
PulsarCalcular ==
    /\ Dibujados
    /\ Run(uploaded_files, fecha_calculo, tasa_mensual, n_cuotas, periodicidad,
           costo_jud, honor_abog, rut_input, TRUE)

\* "Días Atraso" without clip(lower=0)
DiasAtrasoSinClip(col_vcto, fc, vcto) ==
    IF ~col_vcto THEN 0
    ELSE IF vcto = NaT THEN 0
    ELSE DiasEntre(fc, vcto)

\* "Días Atraso" of one row (lines 221-225)
DiasAtraso(col_vcto, fc, vcto) ==
    IF ~col_vcto THEN 0
    ELSE IF vcto = NaT THEN 0
    ELSE Max2(DiasEntre(fc, vcto), 0)

\* (x * 0.19).round(0) and int(round(x * iva_pct))
IvaDe(neto) == RoundHalfEven(neto * IvaPct, 100)

\* round(base * factor_diario * dias): lines 228 and 310
InteresNeto(base, tasa, dias) == RoundHalfEven(base * tasa * dias, FactorDen)

\* the columns of Parte 1 on one row of the customer (lines 219-230)
CalcularFila(f, col_vcto, fc, tasa) ==
    LET dias == DiasAtraso(col_vcto, fc, f.vcto)
        neto == InteresNeto(f.monto, tasa, dias)
        iva  == IvaDe(neto)
    IN  [rut |-> f.rut, rut_norm |-> f.rut_norm,
         monto_base    |-> f.monto,
         fecha_ref     |-> f.vcto,
         dias_atraso   |-> dias,
         interes_neto  |-> neto,
         iva_interes   |-> iva,
         total_interes |-> neto + iva]

RECURSIVE SumCol(_, _)
\* df_cliente[col].sum()
SumCol(filas, col) ==
    IF filas = <<>> THEN 0 ELSE Head(filas)[col] + SumCol(Tail(filas), col)

\* the guard of line 184 never taken
NuncaVacio(filas) == FALSE

\* df_cliente.empty  (line 184)
df_cliente_empty(filas) == filas = <<>>

\* the opening balance taken from the capital alone
SaldoSoloCapital(capital, interes) == capital

\* saldo_deuda_total = int(round(deuda_total_p1))  (lines 234, 287)
SaldoInicial(capital, interes) == capital + interes

\* Lines 184-302: the warning for a RUT without rows; otherwise Parte 1 and,
\* for n_cuotas > 0, the set-up of the plan.
Parte1 ==
    /\ pc = "parte1"
    /\ UNCHANGED <<sesion, df, widgets, rut_clean, cuota_fija, costos_cuota_list,
                   bucle2, totales, i>>
    /\ IF df_cliente_empty(df_cliente)
       THEN /\ mensaje' = "warning_sin_informacion"
            /\ pc' = "fin"
            /\ UNCHANGED <<df_cliente, total_capital_p1, total_interes_p1,
                           deuda_total_p1, plan, bucle1>>
       ELSE LET filas == [k \in DOMAIN df_cliente |->
                            CalcularFila(df_cliente[k], df.col_vcto,
                                         fecha_calculo, tasa_mensual)]
                capital == SumCol(filas, "monto_base")
                interes == SumCol(filas, "total_interes")
                N       == n_cuotas
                fechas  == _generar_fechas(fecha_calculo, N, periodicidad)
                post    == IF periodicidad = "Mensual"
                           THEN MasUnMes(fechas[Len(fechas)])
                           ELSE MasDias(fechas[Len(fechas)], DiasQuincena)
            IN  /\ df_cliente' = filas
                /\ total_capital_p1' = capital
                /\ total_interes_p1' = interes
                /\ deuda_total_p1' = capital + interes
                /\ IF n_cuotas > 0
                   THEN /\ saldo_deuda_total' = SaldoInicial(capital, interes)
                        /\ capital_tot_reneg' = capital
                        /\ capital_cuotas' = _distribuir_redondeo(capital, N)
                        /\ fechas_pago' = fechas
                        /\ fecha_posterior' = post
                        /\ fechas_referencia' = fechas \o <<post>>
                        /\ lista_intereses' = <<>>
                        /\ temp_saldo' = SaldoInicial(capital, interes)
                        /\ temp_interes_previo' = 0
                        /\ mensaje' = "ninguno"
                        /\ pc' = "intereses"
                   ELSE /\ mensaje' = "info_aumenta_cuotas"
                        /\ pc' = "fin"
                        /\ UNCHANGED <<plan, bucle1>>

\* the day count without the rule for the last instalment
DiasPeriodoSinCorte(refs, k, N) == DiasEntre(refs[k + 2], refs[k + 1])

\* dias_r / dias_i of instalment k (from 0): lines 305-307 and 331-332
DiasPeriodo(refs, k, N) ==
    IF k = N - 1 THEN 0 ELSE DiasEntre(refs[k + 2], refs[k + 1])

\* base_calculo without the interest of the previous instalment
BaseCalculoSinInteres(saldo, cap, interes_previo) == saldo - cap

\* base_calculo (line 309)
BaseCalculo(saldo, cap, interes_previo) == saldo - cap + interes_previo

\* one pass of the loop of lines 304-316
IteraInteres ==
    /\ pc = "intereses"
    /\ i < n_cuotas
    /\ LET N            == n_cuotas
           dias_r       == DiasPeriodo(fechas_referencia, i, N)
           cap          == capital_cuotas[i + 1]
           base_calculo == BaseCalculo(temp_saldo, cap, temp_interes_previo)
           int_net      == InteresNeto(base_calculo, tasa_mensual, dias_r)
           iva_i        == IvaDe(int_net)
           total_int_i  == IF i = N - 1 THEN 0 ELSE int_net + iva_i
       IN  /\ lista_intereses' = Append(lista_intereses, total_int_i)
           /\ temp_saldo' = base_calculo
           /\ temp_interes_previo' = total_int_i
    /\ i' = i + 1
    /\ UNCHANGED <<pc, sesion, df, widgets, parte1, mensaje, plan, cuota_fija,
                   costos_cuota_list, bucle2, totales>>

\* cuota_fija = int(round(total_cuotas_pura / N))  (lines 318-320)
CuotaFijaDe(total_cuotas_pura, N) == RoundHalfEven(total_cuotas_pura, N)

\* lines 318-325, between the two loops
CuotaFija ==
    /\ pc = "intereses"
    /\ i = n_cuotas
    /\ LET total_new_interests == SumSeq(lista_intereses)
           total_cuotas_pura   == saldo_deuda_total + total_new_interests
       IN  cuota_fija' = CuotaFijaDe(total_cuotas_pura, n_cuotas)
    /\ rows' = <<>>
    /\ current_saldo' = saldo_deuda_total
    /\ prev_interest' = 0
    /\ costos_cuota_list' = _distribuir_redondeo(costos_total_extras, n_cuotas)
    /\ i' = 0
    /\ pc' = "filas"
    /\ UNCHANGED <<sesion, df, widgets, parte1, mensaje, plan, bucle1, totales>>

\* neto_show (line 335)
NetoShow(int_i) == IF int_i > 0 THEN RoundHalfEven(int_i * 100, 100 + IvaPct) ELSE 0

\* strftime("%d-%m-%Y"): day, month, year
Formato(f) == <<f[3], f[2], f[1]>>

\* saldo_tabla without the interest of the previous instalment
SaldoTablaSinInteres(saldo, cap, interes_previo) == saldo - cap

\* saldo_tabla (line 334)
SaldoTabla(saldo, cap, interes_previo) == saldo - cap + interes_previo

\* one pass of the loop of lines 327-351
IteraFila ==
    /\ pc = "filas"
    /\ i < n_cuotas
    /\ LET N           == n_cuotas
           cap_i       == capital_cuotas[i + 1]
           int_i       == lista_intereses[i + 1]
           costo_i     == costos_cuota_list[i + 1]
           dias_i      == DiasPeriodo(fechas_referencia, i, N)
           saldo_tabla == SaldoTabla(current_saldo, cap_i, prev_interest)
           neto_show   == NetoShow(int_i)
           iva_show    == int_i - neto_show
       IN  /\ rows' = Append(rows, [n            |-> i + 1,
                                    fecha_pago   |-> Formato(fechas_pago[i + 1]),
                                    dias         |-> dias_i,
                                    saldo_deuda  |-> saldo_tabla,
                                    capital      |-> cap_i,
                                    interes_neto |-> neto_show,
                                    iva          |-> iva_show,
                                    interes      |-> int_i,
                                    costos       |-> costo_i,
                                    cuota        |-> cuota_fija])
           /\ current_saldo' = saldo_tabla
           /\ prev_interest' = int_i
    /\ i' = i + 1
    /\ UNCHANGED <<pc, sesion, df, widgets, parte1, mensaje, plan, bucle1,
                   cuota_fija, costos_cuota_list, totales>>

\* the final total with the costs left in the instalments only
GranTotalSinCostos(total_cuotas, costos) == total_cuotas

\* gran_total_final (line 365)
GranTotal(total_cuotas, costos) == total_cuotas + costos

\* lines 353-365: the plan is shown and its totals computed
Resumen ==
    /\ pc = "filas"
    /\ i = n_cuotas
    /\ total_cuotas_calc' = SumCol(rows, "cuota")
    /\ gran_total_final' = GranTotal(SumCol(rows, "cuota"), costos_total_extras)
    /\ pc' = "fin"
    /\ UNCHANGED <<sesion, df, widgets, parte1, mensaje, plan, bucle1, i,
                   cuota_fija, costos_cuota_list, bucle2>>

Next ==
    \/ \E archivos \in Subidas, hoy \in FechasCalculo : CambiarArchivos(archivos, hoy)
    \/ \E fc \in FechasCalculo : CambiarFecha(fc)
    \/ \E tm \in Tasas : CambiarTasa(tm)
    \/ \E nc \in Cuotas : CambiarCuotas(nc)
    \/ \E per \in Periodicidades : CambiarPeriodicidad(per)
    \/ \E cj \in CostasJud, ha \in Honorarios : CambiarCostos(cj, ha)
    \/ \E rut \in RutInputs : EscribirRut(rut)
    \/ PulsarCalcular
    \/ Parte1
    \/ IteraInteres
    \/ CuotaFija
    \/ IteraFila
    \/ Resumen

Spec == Init /\ [][Next]_vars

(* ------------------------------- claims ------------------------------- *)

\* a plan is being built or has been built by this run
HayPlan == capital_cuotas # <<>>

\* the run has ended with its plan and totals shown
PlanTerminado == pc = "fin" /\ rows # <<>>

\* the totals handed to _distribuir_redondeo in the check of the function
TotalesPrueba == -3..12

\* C1: the parts of _distribuir_redondeo(total, n), n > 0, sum to the rounded
\* total: in every plan the capital shares sum to the rounded capital and the
\* cost shares to the ancillary costs, and so do the shares the rows show.
C1_Conservacion ==
    /\ \A t \in TotalesPrueba, n \in 1..MaxCuotas :
          /\ Len(_distribuir_redondeo(t, n)) = n
          /\ SumSeq(_distribuir_redondeo(t, n)) = t
    /\ HayPlan =>
          /\ Len(capital_cuotas) = n_cuotas
          /\ SumSeq(capital_cuotas) = capital_tot_reneg
          /\ capital_tot_reneg = total_capital_p1
    /\ costos_cuota_list # <<>> =>
          /\ Len(costos_cuota_list) = n_cuotas
          /\ SumSeq(costos_cuota_list) = costo_jud + honor_abog + g_cobranza + otros_cost
    /\ PlanTerminado =>
          /\ SumCol(rows, "capital") = total_capital_p1
          /\ SumCol(rows, "costos") = costo_jud + honor_abog + g_cobranza + otros_cost

\* C1 witness: a finished plan of three instalments in which neither the
\* capital nor the costs divide evenly, so the last share carries a difference.
C1_Witness ==
    /\ PlanTerminado
    /\ Len(rows) = 3
    /\ rows[3].capital # rows[1].capital
    /\ rows[3].costos # rows[1].costos

RECURSIVE C2_Base(_)
\* the interest base of instalment k (from 1) by the recurrence of the claim:
\* the opening balance less the capital share plus the previous interest,
\* the opening balance of k + 1 being the base of k
C2_Base(k) ==
    (IF k = 1 THEN saldo_deuda_total ELSE C2_Base(k - 1))
    - capital_cuotas[k]
    + (IF k = 1 THEN 0 ELSE lista_intereses[k - 1])

\* days[k] of the claim: the days to the next reference date, 0 for the last
C2_Dias(k) ==
    IF k = n_cuotas THEN 0
    ELSE Ordinal(fechas_referencia[k + 1]) - Ordinal(fechas_referencia[k])

\* C2: through the instalment loop every interest computed so far is the
\* rounded interest on its base plus the VAT of that, and the balance carried
\* to the next pass is the base of the last pass (the opening balance at first).
C2_BalanceEvolution ==
    HayPlan =>
       /\ \A k \in 1..Len(lista_intereses) :
             LET neto == RoundHalfEven(C2_Base(k) * tasa_mensual * C2_Dias(k),
                                       100 * 100 * 30)
             IN  lista_intereses[k] = neto + RoundHalfEven(neto * 19, 100)
       /\ temp_saldo = IF lista_intereses = <<>> THEN saldo_deuda_total
                       ELSE C2_Base(Len(lista_intereses))
       /\ temp_interes_previo = IF lista_intereses = <<>> THEN 0
                                ELSE lista_intereses[Len(lista_intereses)]
       /\ saldo_deuda_total = deuda_total_p1

\* C2 witness: a finished loop of three passes whose first two interests are
\* not zero, so the second base carries the interest of the first.
C2_Witness ==
    /\ pc = "filas"
    /\ Len(lista_intereses) = 3
    /\ lista_intereses[1] # 0
    /\ lista_intereses[2] # 0
    /\ lista_intereses[2] # lista_intereses[1]

\* C3: the last instalment of a finished plan has sequence number N, 0 days
\* and 0 interest, net interest and VAT; the interest list ends in 0.
C3_UltimaCuotaSinInteres ==
    /\ Len(lista_intereses) = n_cuotas /\ n_cuotas > 0 =>
          lista_intereses[n_cuotas] = 0
    /\ PlanTerminado =>
          /\ Len(rows) = n_cuotas
          /\ rows[n_cuotas].n = n_cuotas
          /\ rows[n_cuotas].dias = 0
          /\ rows[n_cuotas].interes = 0
          /\ rows[n_cuotas].interes_neto = 0
          /\ rows[n_cuotas].iva = 0

\* C3 witness: a finished plan with a rate and a balance that give the
\* earlier instalments interest and days.
C3_Witness ==
    /\ PlanTerminado
    /\ n_cuotas = 3
    /\ tasa_mensual # 0
    /\ rows[2].interes # 0
    /\ rows[2].dias > 0
    /\ rows[3].interes = 0

\* the rows of df_cliente carry the columns of Parte 1
Parte1Hecha ==
    df_cliente # <<>> /\ "dias_atraso" \in DOMAIN df_cliente[1]

\* C4: every interest shown has vat = round(net * 0.19) and total = net + vat,
\* on the rows of the overdue invoices and on the rows of the plan.
C4_IvaDerivado ==
    /\ Parte1Hecha =>
          \A k \in DOMAIN df_cliente :
             /\ df_cliente[k].iva_interes
                   = RoundHalfEven(df_cliente[k].interes_neto * 19, 100)
             /\ df_cliente[k].total_interes
                   = df_cliente[k].interes_neto + df_cliente[k].iva_interes
    /\ \A k \in DOMAIN rows :
          /\ rows[k].iva = RoundHalfEven(rows[k].interes_neto * 19, 100)
          /\ rows[k].interes = rows[k].interes_neto + rows[k].iva

\* a is a later calendar date than b
FechaPosteriorA(a, b) ==
    \/ a[1] > b[1]
    \/ a[1] = b[1] /\ a[2] > b[2]
    \/ a[1] = b[1] /\ a[2] = b[2] /\ a[3] > b[3]

RECURSIVE C5_InteresVencido(_)
\* the interest of the rows that are overdue
C5_InteresVencido(filas) ==
    IF filas = <<>> THEN 0
    ELSE (IF Head(filas).dias_atraso > 0 THEN Head(filas).total_interes ELSE 0)
         + C5_InteresVencido(Tail(filas))

\* C5: the days overdue of an invoice are max(0, calculation date - due date)
\* and 0 without a due date; an invoice due after the calculation date has no
\* interest and adds only its amount to the consolidated balance.
C5_DiasNoNegativos ==
    Parte1Hecha =>
       /\ \A k \in DOMAIN df_cliente :
             LET f == df_cliente[k]
             IN  /\ f.dias_atraso >= 0
                 /\ f.fecha_ref = NaT => f.dias_atraso = 0
                 /\ f.fecha_ref # NaT /\ df.col_vcto =>
                       f.dias_atraso
                          = Max2(0, Ordinal(fecha_calculo) - Ordinal(f.fecha_ref))
                 /\ f.fecha_ref # NaT /\ FechaPosteriorA(f.fecha_ref, fecha_calculo) =>
                       /\ f.dias_atraso = 0
                       /\ f.interes_neto = 0
                       /\ f.iva_interes = 0
                       /\ f.total_interes = 0
       /\ deuda_total_p1
             = SumCol(df_cliente, "monto_base") + C5_InteresVencido(df_cliente)

\* C5 witness: a customer with an invoice due after the calculation date and
\* an overdue invoice that bears interest.
C5_Witness ==
    /\ Parte1Hecha
    /\ \E k \in DOMAIN df_cliente :
          /\ df_cliente[k].fecha_ref # NaT
          /\ FechaPosteriorA(df_cliente[k].fecha_ref, fecha_calculo)
    /\ \E k \in DOMAIN df_cliente :
          df_cliente[k].dias_atraso > 0 /\ df_cliente[k].total_interes # 0

\* b is a date of the calendar
C6_FechaValida(b) ==
    /\ b[2] \in 1..12
    /\ b[3] \in 1..(IF b[2] = 2
                    THEN (IF b[1] % 4 = 0 /\ (b[1] % 100 # 0 \/ b[1] % 400 = 0)
                          THEN 29 ELSE 28)
                    ELSE IF b[2] \in {4, 6, 9, 11} THEN 30 ELSE 31)

\* b follows a in the payment calendar: 15 days later (Quincenal), or in the
\* next calendar month on the same day of the month, cut to the last valid day
\* of that month (Mensual)
C6_Paso(a, b) ==
    /\ C6_FechaValida(b)
    /\ IF periodicidad = "Quincenal"
       THEN Ordinal(b) - Ordinal(a) = 15
       ELSE /\ 12 * b[1] + b[2] = 12 * a[1] + a[2] + 1
            /\ \/ b[3] = a[3]
               \/ /\ b[3] < a[3]
                  /\ ~C6_FechaValida(<<b[1], b[2], b[3] + 1>>)
            /\ a = <<2024, 1, 31>> => b = <<2024, 2, 29>>

\* C6: the payment dates are n dates that start at the anchor date, each the
\* step of the one before, and the trailing reference date is the step of the
\* last payment date.
C6_SecuenciaFechas ==
    HayPlan =>
       /\ Len(fechas_pago) = n_cuotas
       /\ fechas_pago[1] = fecha_calculo
       /\ \A k \in 1..(n_cuotas - 1) : C6_Paso(fechas_pago[k], fechas_pago[k + 1])
       /\ C6_Paso(fechas_pago[n_cuotas], fecha_posterior)
       /\ fechas_referencia = Append(fechas_pago, fecha_posterior)

\* C6 witness: a monthly plan anchored on 31 January 2024 whose second date
\* is cut to 29 February and whose trailing date follows the third.
C6_Witness ==
    /\ HayPlan
    /\ periodicidad = "Mensual"
    /\ n_cuotas = 3
    /\ fechas_pago[1] = <<2024, 1, 31>>
    /\ fechas_pago[2] = <<2024, 2, 29>>
    /\ fecha_posterior = <<2024, 4, 29>>

\* the reference scenario: balance 1,000,000, 0.33 % a month, three monthly
\* instalments from 3 January 2024, the plan finished
C7_Escenario ==
    /\ PlanTerminado
    /\ saldo_deuda_total = 1000000
    /\ tasa_mensual = 33
    /\ n_cuotas = 3
    /\ periodicidad = "Mensual"
    /\ fecha_calculo = <<2024, 1, 3>>

\* C7 as stated: in the reference scenario the capital shares are
\* [333334, 333333, 333333], the dates 3 January, 3 February and 3 March 2024
\* and the last interest 0.
C7_Original ==
    C7_Escenario =>
       /\ capital_cuotas = <<333334, 333333, 333333>>
       /\ fechas_pago = << <<2024, 1, 3>>, <<2024, 2, 3>>, <<2024, 3, 3>> >>
       /\ lista_intereses[3] = 0

\* C7 amended: in the reference scenario the capital shares are
\* [333333, 333333, 333334] (the last share takes the remainder), the dates
\* 3 January, 3 February and 3 March 2024 and the last interest 0.
C7_EscenarioReferencia ==
    C7_Escenario =>
       /\ capital_cuotas = <<333333, 333333, 333334>>
       /\ [k \in 1..3 |-> rows[k].capital] = <<333333, 333333, 333334>>
       /\ fechas_pago = << <<2024, 1, 3>>, <<2024, 2, 3>>, <<2024, 3, 3>> >>
       /\ lista_intereses[3] = 0
       /\ rows[3].interes = 0

\* C7 witness: the reference scenario is reached, with interest on the first
\* instalment.
C7_Witness == C7_Escenario /\ rows[1].interes > 0

\* C8 as stated: the total of the instalments is the sum of the instalment
\* amounts, and the final amount to pay equals it, the costs entering only
\* through the shares of the instalments.
C8_Original ==
    PlanTerminado =>
       /\ total_cuotas_calc = SumCol(rows, "cuota")
       /\ gran_total_final = total_cuotas_calc

\* C8 amended: the total of the instalments is the sum of the 'Cuota
\* (Cap+Int)' amounts, which hold no cost share, and the final amount to pay
\* is that total plus the ancillary costs, counted once: it equals the total
\* of the instalments plus the cost shares of the rows.
C8_TotalesDelPlan ==
    PlanTerminado =>
       /\ total_cuotas_calc = SumCol(rows, "cuota")
       /\ \A k \in DOMAIN rows : rows[k].cuota = cuota_fija
       /\ gran_total_final
             = total_cuotas_calc + costo_jud + honor_abog + g_cobranza + otros_cost
       /\ gran_total_final = total_cuotas_calc + SumCol(rows, "costos")

\* C8 witness: a finished plan with ancillary costs.
C8_Witness ==
    /\ PlanTerminado
    /\ costo_jud + honor_abog > 0
    /\ n_cuotas = 3
    /\ gran_total_final > total_cuotas_calc

\* C9: every instalment carries cuota_fija = round((balance + interest) / N)
\* and the N instalment amounts sum to exactly the balance plus the interest.
C9_SinFugaDeRedondeo ==
    PlanTerminado =>
       /\ \A k \in DOMAIN rows :
             rows[k].cuota
                = RoundHalfEven(saldo_deuda_total + SumSeq(lista_intereses), n_cuotas)
       /\ SumCol(rows, "cuota") = saldo_deuda_total + SumSeq(lista_intereses)

\* the rows of the data frame whose normalised RUT is the requested one
C10_Coincidencias ==
    { k \in DOMAIN df.filas : df.filas[k].rut_norm = _normalize_rut(rut_target) }

\* the run has produced nothing of a plan
C10_SinPlan ==
    /\ rows = <<>> /\ capital_cuotas = <<>> /\ lista_intereses = <<>>
    /\ fechas_pago = <<>> /\ costos_cuota_list = <<>>
    /\ cuota_fija = 0 /\ total_cuotas_calc = 0 /\ gran_total_final = 0

\* C10: the scheduler runs and produces rows only for a customer with at least
\* one matching invoice and N > 0; a run that ends with no invoice matching
\* the requested RUT, or with N <= 0, has told the user and produced no row,
\* no partial plan and no total.
C10_SinPlanConEntradaInvalida ==
    /\ pc \in {"intereses", "filas"} \/ ~C10_SinPlan =>
          /\ calc_done /\ rut_target # <<>>
          /\ C10_Coincidencias # {}
          /\ n_cuotas > 0
    /\ pc = "fin" /\ df.filas # <<>> /\ calc_done /\ rut_target # <<>>
          /\ C10_Coincidencias = {} =>
          /\ mensaje = "warning_sin_informacion"
          /\ C10_SinPlan
    /\ pc = "fin" /\ df.filas # <<>> /\ calc_done /\ rut_target # <<>>
          /\ C10_Coincidencias # {} /\ n_cuotas <= 0 =>
          /\ mensaje = "info_aumenta_cuotas"
          /\ C10_SinPlan

\* C10 witness: a run for a RUT that no invoice of the file carries has ended
\* with the warning.
C10_Witness ==
    /\ pc = "fin"
    /\ df.filas # <<>>
    /\ calc_done
    /\ rut_target = <<"9", "9", "-", "9">>
    /\ mensaje = "warning_sin_informacion"

\* C11: whatever ran before, a run computes on the invoices of the files it
\* is given and for the customer whose RUT it is given: its data frame is the
\* one loaded from the uploaded files, and a run that reaches Parte 1 works
\* on the RUT of the text box.
C11_SinEstadoEntreCorridas ==
    pc # "inicio" =>
       /\ uploaded_files # <<>> =>
             df = ConRutNorm(load_data_simple(uploaded_files))
       /\ pc # "fin" \/ Parte1Hecha \/ mensaje = "warning_sin_informacion" =>
             rut_clean = _normalize_rut(rut_input)

\* C12: a finished plan of one instalment has exactly one row, whose amount
\* is the whole consolidated balance (capital plus overdue interest) and
\* whose capital is the whole capital, with interest 0 and days 0.
C12_PlanDeUnaCuota ==
    PlanTerminado /\ n_cuotas = 1 =>
       /\ Len(rows) = 1
       /\ rows[1].n = 1
       /\ rows[1].cuota = total_capital_p1 + total_interes_p1
       /\ rows[1].cuota = SumCol(df_cliente, "monto_base")
                             + SumCol(df_cliente, "total_interes")
       /\ rows[1].capital = total_capital_p1
       /\ rows[1].interes = 0 /\ rows[1].interes_neto = 0 /\ rows[1].iva = 0
       /\ rows[1].dias = 0
       /\ total_cuotas_calc = rows[1].cuota

\* C12 witness: a finished plan of one instalment for a customer with
\* overdue interest, at a rate that is not zero.
C12_Witness ==
    /\ PlanTerminado
    /\ n_cuotas = 1
    /\ tasa_mensual # 0
    /\ total_interes_p1 > 0
    /\ rows[1].cuota > total_capital_p1

\* the balance the claim gives row k (from 1): the opening balance less the
\* capital shares up to k plus the interests before k
C13_Saldo(k) ==
    saldo_deuda_total
    - SumSeq(SubSeq(capital_cuotas, 1, k))
    + SumSeq(SubSeq(lista_intereses, 1, k - 1))

\* the displayed balance of every row is the balance of the claim, which is
\* the interest base of that instalment in the first loop; after the last
\* row it is the opening balance less the capital plus the interests
C13_SaldoEsLaBase ==
    /\ \A k \in DOMAIN rows :
          /\ rows[k].saldo_deuda = C13_Saldo(k)
          /\ rows[k].saldo_deuda = C2_Base(k)
    /\ rows # <<>> => current_saldo = rows[Len(rows)].saldo_deuda
    /\ PlanTerminado =>
          /\ rows[n_cuotas].saldo_deuda = temp_saldo
          /\ rows[n_cuotas].saldo_deuda
                = saldo_deuda_total - capital_tot_reneg + SumSeq(lista_intereses)
          /\ rows[n_cuotas].saldo_deuda
                = total_interes_p1 + SumSeq(lista_intereses)

\* the run charged neither overdue interest nor interest on an instalment
C13_SinIntereses ==
    /\ total_interes_p1 = 0
    /\ \A k \in DOMAIN lista_intereses : lista_intereses[k] = 0

\* C13 as stated: the displayed balance of row i is the interest base of
\* instalment i, and the balance after the last instalment is 0 only when
\* there is neither overdue interest nor scheduled interest.
C13_Original ==
    /\ C13_SaldoEsLaBase
    /\ PlanTerminado /\ rows[n_cuotas].saldo_deuda = 0 => C13_SinIntereses

\* C13 amended: the displayed balance of row i is the interest base of
\* instalment i; the balance after the last instalment is the overdue
\* interest plus the scheduled interest, so it is 0 when there is neither and
\* otherwise exactly when the two cancel.
C13_SaldoMostrado ==
    /\ C13_SaldoEsLaBase
    /\ PlanTerminado /\ C13_SinIntereses => rows[n_cuotas].saldo_deuda = 0
    /\ PlanTerminado =>
          (rows[n_cuotas].saldo_deuda = 0
              <=> total_interes_p1 = - SumSeq(lista_intereses))

\* C13 witness: a finished plan of three instalments with overdue interest
\* and scheduled interest, whose last displayed balance is what they add up to.
C13_Witness ==
    /\ PlanTerminado
    /\ n_cuotas = 3
    /\ total_interes_p1 > 0
    /\ lista_intereses[1] # 0
    /\ lista_intereses[2] # 0
    /\ rows[3].saldo_deuda # 0
    /\ rows[2].saldo_deuda # rows[1].saldo_deuda - rows[2].capital

====
